---- MODULE Spec2Model ----
(***************************************************************************)
(* A model of AzPolicyAlias' fetch-cache-aggregate engine                  *)
(* (src/src/azure_service.py): RetryWithBackoff.execute, the TTL cache of  *)
(* AzurePolicyService.get_policy_aliases and the fan-out of                *)
(* _fetch_aliases_sync over the provider namespaces.                       *)
(*                                                                         *)
(* The remote management client (client.providers.list / .get) is the      *)
(* environment: each call answers with a nondeterministic choice among a   *)
(* listing / a detail response / an exception class.                       *)
(***************************************************************************)
EXTENDS Integers, Sequences, FiniteSets, TLC

(* ------------------------------ bounds --------------------------------- *)
\* the readings of the clock (datetime.now()) run over 0..MaxTime
MaxTime == 2
\* cache_duration (the TTL) is drawn from 1..MaxTTL clock units
MaxTTL == 2
\* total number of get_policy_aliases calls in one behaviour
MaxCalls == 3
\* longest listing client.providers.list() answers with, in SpecFetch
MaxNamespaces == 3
\* and in Spec
MaxListed == 1
\* longest cached list over AliasPool the queries of SpecQuery run on
MaxCached == 2
\* most namespaces of a cached list of SpecQuery
MaxWide == 12

(* ------------------------- program constants --------------------------- *)
\* RetryWithBackoff(max_retries=3, base_delay=1.0)
max_retries == 3
base_delay == 1
\* ThreadPoolExecutor(max_workers=max_workers) of one fetch
max_workers == 25

\* the coroutines that call get_policy_aliases
Callers == {"c1", "c2"}
\* the coroutine of the sequential behaviours: it awaits each call before
\* it makes the next
MainCallers == {"c1"}

\* Python's None for cache_timestamp
NoTimestamp == -1
\* Python's None for an optional string field
None == "None"

(* --------------------- azure.core.exceptions ---------------------------- *)
\* the exception classes the remote client raises; "Exception" stands for
\* any exception that is not an AzureError
ErrKinds == {"ClientAuthenticationError", "HttpResponseError",
             "ServiceRequestError", "AzureError", "Exception"}

\* isinstance(err, ClientAuthenticationError)
IsClientAuthenticationError(kind) == kind = "ClientAuthenticationError"

\* isinstance(err, HttpResponseError): ClientAuthenticationError derives from it
IsHttpResponseError(kind) == kind \in {"HttpResponseError", "ClientAuthenticationError"}

\* isinstance(err, ServiceRequestError)
IsServiceRequestError(kind) == kind = "ServiceRequestError"

\* isinstance(err, AzureError): everything but the plain Exception
IsAzureError(kind) == kind \in ErrKinds \ {"Exception"}

\* isinstance(err, Exception): every class above
IsException(kind) == kind \in ErrKinds

\* an exception object: its class and the attempt (0-based) that raised it
Err(kind, attempt) == [kind |-> kind, attempt |-> attempt]
NoErr == [kind |-> None, attempt |-> 0]

VARIABLES
    cache,            \* self.cache: the dict, has = the key "aliases" is set
    cache_timestamp,  \* self.cache_timestamp, NoTimestamp for None
    cache_duration,   \* self.cache_duration (the TTL), fixed at construction
    now,              \* the latest reading of the clock (datetime.now())
    call,             \* per coroutine: its current or last get_policy_aliases call
    nextId,           \* number of calls started so far, plus one
    request           \* per coroutine: the query operation it is serving

vars == <<cache, cache_timestamp, cache_duration, now, call, nextId, request>>

(* ------------------------ the remote catalogue -------------------------- *)
\* provider_summary.namespace of the i-th entry of a listing; the second
\* entry has no namespace (getattr(..., "namespace", None) is falsy)
NamespaceAt(i) ==
    IF i = 2 THEN ""
    ELSE IF i = 1 THEN "Microsoft.A"
    ELSE IF i = 3 THEN "Microsoft.B"
    ELSE "Microsoft.C"

\* the listings client.providers.list() may answer with: the first n entries
\* of the catalogue, n = 0..MaxNamespaces
Listing(n) == [i \in 1..n |-> NamespaceAt(i)]

\* an alias entry of a resource type, as the SDK object exposes it;
\* default_pattern is <<>> for None, else <<the pattern object>>
RemoteAlias(name, path, pattern) ==
    [name |-> name, default_path |-> path, default_pattern |-> pattern, type |-> None]

\* provider.resource_types of a successful client.providers.get: a sequence
\* of [resource_type, aliases]; <<>> also stands for None (`or []`)
Details == {
    <<>>,
    << [resource_type |-> "rtA", aliases |-> <<>>] >>,
    << [resource_type |-> "rtA",
        aliases |-> <<RemoteAlias("a1", "p1", <<>>)>>] >>,
    << [resource_type |-> "rtA",
        aliases |-> <<RemoteAlias("a1", "p1", <<>>)>>],
       [resource_type |-> "rtB",
        aliases |-> <<RemoteAlias("a2", None,
                        <<[phrase |-> "ph", variable |-> None, type |-> "Extract"]>>)>>] >>
}

\* what one client.providers.get call does: answer with a detail or raise
Responses ==
    { [ok |-> TRUE, detail |-> d, kind |-> None] : d \in Details } \cup
    { [ok |-> FALSE, detail |-> <<>>, kind |-> k] : k \in ErrKinds }
NoResponse == [ok |-> TRUE, detail |-> <<>>, kind |-> None]

(* ------------------------- fetch_provider_aliases ----------------------- *)
\* the pattern sub-object, copied field by field when it is set
DefaultPattern(alias) ==
    IF alias.default_pattern # <<>>
    THEN << [ phrase   |-> alias.default_pattern[1].phrase,
              variable |-> alias.default_pattern[1].variable,
              type     |-> alias.default_pattern[1].type ] >>
    ELSE <<>>

\* the dict appended per alias
AliasDict(namespace, resource_type, alias) ==
    [ namespace       |-> namespace,
      resource_type   |-> resource_type,
      alias_name      |-> alias.name,
      default_path    |-> alias.default_path,
      default_pattern |-> DefaultPattern(alias),
      type            |-> alias.type ]

\* the inner loop: the aliases of one resource type
RECURSIVE AliasesOfType(_, _, _)
AliasesOfType(namespace, resource_type, aliases) ==
    IF aliases = <<>> THEN <<>>
    ELSE <<AliasDict(namespace, resource_type, Head(aliases))>>
         \o AliasesOfType(namespace, resource_type, Tail(aliases))

\* the outer loop: for resource_type in provider.resource_types or []
RECURSIVE FlattenAliases(_, _)
FlattenAliases(namespace, resource_types) ==
    IF resource_types = <<>> THEN <<>>
    ELSE AliasesOfType(namespace, Head(resource_types).resource_type,
                       Head(resource_types).aliases)
         \o FlattenAliases(namespace, Tail(resource_types))

\* how a future ends: with a returned list or with an exception
Returned(aliases) == [raised |-> FALSE, aliases |-> aliases, kind |-> None]
Raised(kind) == [raised |-> TRUE, aliases |-> <<>>, kind |-> kind]

\* fetch_provider_aliases(provider_summary), given what providers.get does
\* (resp is not consulted when the namespace is missing: no call is made)
fetch_provider_aliases(namespace, resp) ==
    IF namespace = "" THEN Returned(<<>>)
    ELSE IF ~resp.ok
         THEN IF IsAzureError(resp.kind) THEN Returned(<<>>)
              ELSE Raised(resp.kind)
         ELSE Returned(FlattenAliases(namespace, resp.detail))

(* --------------------------- the state of a call ------------------------ *)
\* one submitted future of the fan-out
\*   st: "queued" (submitted), "running" (a worker is inside providers.get),
\*       "done" (the future has its result), "merged" (as_completed consumed it)
\*   called: providers.get was called; failed: and it raised
\*   result: how fetch_provider_aliases ended
Unit(namespace) ==
    [namespace |-> namespace, st |-> "queued", called |-> FALSE,
     failed |-> FALSE, result |-> Returned(<<>>)]

\* the locals of one _fetch_aliases_sync run
NoRun ==
    [ units            |-> <<>>,   \* futures, in providers_list order
      all_aliases      |-> <<>>,
      providers_with_aliases |-> 0,
      failed_providers |-> <<>>,
      raised           |-> FALSE,  \* the run ended with an exception
      kind             |-> None ]  \* its class

\* a coroutine that has not called get_policy_aliases yet
IdleCall ==
    [ id            |-> 0,
      pc            |-> "idle",
      force_refresh |-> FALSE,
      fresh0        |-> FALSE,       \* now - cache_timestamp < cache_duration then
      ts0           |-> NoTimestamp, \* cache_timestamp when the call was made
      had0          |-> FALSE,       \* the cache held "aliases" at that time
      prev_runs     |-> 0,           \* if the coroutine's previous call replaced the
                                     \* cache: how often that call ran func, else 0
      attempt       |-> 0,           \* the loop variable of execute
      last_exception |-> NoErr,
      invocations   |-> <<>>,        \* per run of func: None or the class raised
      slept         |-> <<>>,        \* the delays of asyncio.sleep, in order
      listCalls     |-> 0,           \* client.providers.list calls
      detailCalls   |-> 0,           \* client.providers.get calls
      run           |-> NoRun,
      outcome       |-> "none",      \* "returned" or "raised"
      value         |-> <<>>,        \* the list returned
      error         |-> NoErr,       \* the exception raised
      wrote         |-> FALSE,       \* the call replaced the cache
      fetchedAt     |-> NoTimestamp ]\* the cache_timestamp it set

InProgress(c) == call[c].pc \notin {"idle", "done"}

\* a coroutine that serves no query operation (search_aliases,
\* get_namespaces_with_counts, get_statistics, or the handler get_aliases)
\*   op: the operation; pc: "await" while get_policy_aliases() runs
\*   query, namespace_filter, force_refresh: the parameters it was given
\*   outcome: "returned" or "raised"; reply: what it returned
NoRequest ==
    [ handler          |-> "none",   \* "get_aliases" for a GET /api/aliases
      op               |-> "none",
      pc               |-> "idle",
      query            |-> None,
      namespace_filter |-> None,
      force_refresh    |-> FALSE,
      outcome          |-> "none",
      reply            |-> <<>> ]

(* ------------------------------- the cache ------------------------------ *)
NoCache == [has |-> FALSE, aliases |-> <<>>]

\* bool(self.cache): the dict has a key
CacheTruthy(ch) == ch.has

\* self.cache.get("aliases", [])
CacheGet(ch) == IF ch.has THEN ch.aliases ELSE <<>>

\* mutant: an empty alias list counts as no cache
_is_cache_valid_EmptyInvalid(ch, ts, dur, t) ==
    IF ts = NoTimestamp \/ ~(ch.has /\ ch.aliases # <<>>) THEN FALSE
    ELSE t - ts < dur

\* mutant: the cache is still valid at the very end of the TTL
_is_cache_valid_Inclusive(ch, ts, dur, t) ==
    IF ts = NoTimestamp \/ ~CacheTruthy(ch) THEN FALSE
    ELSE t - ts <= dur

\* AzurePolicyService._is_cache_valid
_is_cache_valid(ch, ts, dur, t) ==
    IF ts = NoTimestamp \/ ~CacheTruthy(ch) THEN FALSE
    ELSE t - ts < dur

\* mutant: force_refresh is not consulted
ServeFromCache_IgnoresForce(force_refresh, ch, ts, dur, t) ==
    _is_cache_valid(ch, ts, dur, t)

\* mutant: a call that finds a fetch in progress is served from the cache
ServeFromCache_SingleFlight(force_refresh, ch, ts, dur, t) ==
    \/ ~force_refresh /\ _is_cache_valid(ch, ts, dur, t)
    \/ \E d \in Callers : InProgress(d)

\* the first test of get_policy_aliases: serve the call from the cache
ServeFromCache(force_refresh, ch, ts, dur, t) ==
    ~force_refresh /\ _is_cache_valid(ch, ts, dur, t)

Init ==
    /\ cache = NoCache
    /\ cache_timestamp = NoTimestamp
    /\ cache_duration \in 1..MaxTTL
    /\ now = 0
    /\ call = [c \in Callers |-> IdleCall]
    /\ nextId = 1
    /\ request = [c \in Callers |-> NoRequest]

\* datetime.now(): a reading t of the clock, not before the latest one
ClockReads(t) == t \in now..MaxTime

(* ------------------------- get_policy_aliases --------------------------- *)
\* the call begins: the cache check, t being the reading of the clock in
\* _is_cache_valid, then either the cached list is returned at once or execute
\* starts its first attempt and hands _fetch_aliases_sync to the executor (the
\* coroutine is suspended in run_in_executor)
Begin(c, force_refresh, t) ==
    /\ ~InProgress(c)
    /\ nextId <= MaxCalls
    /\ ClockReads(t)
    /\ LET begun == [IdleCall EXCEPT
                        !.id = nextId,
                        !.force_refresh = force_refresh,
                        !.fresh0 = (cache_timestamp # NoTimestamp
                                    /\ t - cache_timestamp < cache_duration),
                        !.ts0 = cache_timestamp,
                        !.had0 = cache.has,
                        !.prev_runs = IF call[c].wrote
                                      THEN Len(call[c].invocations) ELSE 0]
       IN IF ServeFromCache(force_refresh, cache, cache_timestamp, cache_duration, t)
          THEN call' = [call EXCEPT ![c] =
                           [begun EXCEPT !.pc = "done",
                                         !.outcome = "returned",
                                         !.value = CacheGet(cache)]]
          ELSE call' = [call EXCEPT ![c] = [begun EXCEPT !.pc = "list"]]
    /\ nextId' = nextId + 1
    /\ UNCHANGED <<cache, cache_timestamp, cache_duration>>

\* AzurePolicyService.get_policy_aliases(force_refresh), up to its return or
\* its first suspension
get_policy_aliases(c, force_refresh, t) ==
    /\ Begin(c, force_refresh, t)
    /\ now' = t

(* -------------------------- _fetch_aliases_sync ------------------------- *)
\* one entry of call[c].invocations: did providers.list answer, and the
\* class the run raised (None when it returned)
Invocation(listed, kind) == [listed |-> listed, kind |-> kind]

\* client.providers.list() answers: the futures are submitted
ListNamespacesOk(c, listing) ==
    /\ call[c].pc = "list"
    /\    call' = [call EXCEPT
                      ![c].pc = "fanout",
                      ![c].listCalls = @ + 1,
                      ![c].run = [NoRun EXCEPT
                          !.units = [i \in 1..Len(listing) |-> Unit(listing[i])]]]
    /\ UNCHANGED <<cache, cache_timestamp, cache_duration, now, nextId, request>>

\* client.providers.list() raises an exception of class kind: logged and
\* re-raised by the run
ListNamespacesRaises(c, kind) ==
    /\ call[c].pc = "list"
    /\ call' = [call EXCEPT
                   ![c].pc = "resume",
                   ![c].listCalls = @ + 1,
                   ![c].invocations = Append(@, Invocation(FALSE, kind)),
                   ![c].run = [NoRun EXCEPT !.raised = TRUE, !.kind = kind]]
    /\ UNCHANGED <<cache, cache_timestamp, cache_duration, now, nextId, request>>

\* client.providers.list() raises, whatever the class
ListNamespacesFail(c) == \E kind \in ErrKinds : ListNamespacesRaises(c, kind)

\* number of workers of the fetch's pool that are inside a unit of work
InFlight(run) == Cardinality({i \in DOMAIN run.units : run.units[i].st = "running"})

\* a worker of the pool takes a queued unit
UnitStart(c, i) ==
    /\ call[c].pc = "fanout"
    /\ i \in DOMAIN call[c].run.units
    /\ call[c].run.units[i].st = "queued"
    /\ InFlight(call[c].run) < max_workers
    /\ call' = [call EXCEPT ![c].run.units[i].st = "running"]
    /\ UNCHANGED <<cache, cache_timestamp, cache_duration, now, nextId, request>>

\* the unit ends: fetch_provider_aliases returns or raises, providers.get
\* having done resp
UnitCompleteWith(c, i, resp) ==
    /\ call[c].pc = "fanout"
    /\ i \in DOMAIN call[c].run.units
    /\ call[c].run.units[i].st = "running"
    /\ LET namespace == call[c].run.units[i].namespace
       IN call' = [call EXCEPT
                      ![c].detailCalls = IF namespace = "" THEN @ ELSE @ + 1,
                      ![c].run.units[i] =
                          [@ EXCEPT !.st = "done",
                                    !.called = (namespace # ""),
                                    !.failed = ~resp.ok,
                                    !.result = fetch_provider_aliases(namespace, resp)]]
    /\ UNCHANGED <<cache, cache_timestamp, cache_duration, now, nextId, request>>

\* the unit ends, whatever providers.get does
UnitComplete(c, i) ==
    /\ i \in DOMAIN call[c].run.units
    /\ \E resp \in IF call[c].run.units[i].namespace = "" THEN {NoResponse}
                   ELSE Responses :
          UnitCompleteWith(c, i, resp)

\* mutant: the loop has no handler but except AzureError
LoopCatches_AzureOnly(kind) == IsAzureError(kind)

\* the handlers of the as_completed loop catch the exception of a future:
\* except AzureError, then except Exception
LoopCatches(kind) == IsAzureError(kind) \/ IsException(kind)

\* mutant: the merge keeps the aliases of the latest future only
MergeFuture_Overwrites(run, u) ==
    IF ~u.result.raised
    THEN IF u.result.aliases # <<>>
         THEN [run EXCEPT !.all_aliases = u.result.aliases,
                          !.providers_with_aliases = @ + 1]
         ELSE run
    ELSE IF LoopCatches(u.result.kind)
         THEN [run EXCEPT !.failed_providers = Append(@, u.namespace)]
         ELSE [run EXCEPT !.raised = TRUE, !.kind = u.result.kind]

\* the body of the as_completed loop for the future of unit u
MergeFuture(run, u) ==
    IF ~u.result.raised
    THEN IF u.result.aliases # <<>>
         THEN [run EXCEPT !.all_aliases = @ \o u.result.aliases,
                          !.providers_with_aliases = @ + 1]
         ELSE run
    ELSE IF LoopCatches(u.result.kind)
         THEN [run EXCEPT !.failed_providers = Append(@, u.namespace)]
         ELSE [run EXCEPT !.raised = TRUE, !.kind = u.result.kind]

\* as_completed hands the next finished future to the loop
Merge(c, i) ==
    /\ call[c].pc = "fanout"
    /\ i \in DOMAIN call[c].run.units
    /\ call[c].run.units[i].st = "done"
    /\ LET merged == MergeFuture(call[c].run, call[c].run.units[i])
           run == [merged EXCEPT !.units[i].st = "merged"]
       IN call' = [call EXCEPT
                      ![c].run = run,
                      ![c].pc = IF run.raised THEN "resume" ELSE @,
                      ![c].invocations =
                          IF run.raised THEN Append(@, Invocation(TRUE, run.kind))
                          ELSE @]
    /\ UNCHANGED <<cache, cache_timestamp, cache_duration, now, nextId, request>>

\* every future is merged: the pool is shut down and all_aliases returned
FetchReturn(c) ==
    /\ call[c].pc = "fanout"
    /\ \A i \in DOMAIN call[c].run.units : call[c].run.units[i].st = "merged"
    /\ call' = [call EXCEPT
                   ![c].pc = "resume",
                   ![c].invocations = Append(@, Invocation(TRUE, None))]
    /\ UNCHANGED <<cache, cache_timestamp, cache_duration, now, nextId, request>>

(* ------------------------ RetryWithBackoff.execute ---------------------- *)
\* mutant: the (ServiceRequestError, HttpResponseError) clause comes first
ExceptClause_TransientFirst(kind) ==
    IF IsServiceRequestError(kind) \/ IsHttpResponseError(kind) THEN "transient"
    ELSE IF IsClientAuthenticationError(kind) THEN "auth"
    ELSE "other"

\* mutant: the retried clause names HttpResponseError alone
ExceptClause_HttpOnly(kind) ==
    IF IsClientAuthenticationError(kind) THEN "auth"
    ELSE IF IsHttpResponseError(kind) THEN "transient"
    ELSE "other"

\* which except clause of execute takes an exception of this class: the
\* clauses are tried in source order
ExceptClause(kind) ==
    IF IsClientAuthenticationError(kind) THEN "auth"
    ELSE IF IsServiceRequestError(kind) \/ IsHttpResponseError(kind) THEN "transient"
    ELSE "other"

\* mutant: range(self.max_retries + 1)
LoopContinues_OneMore(attempt) == attempt + 1 < max_retries + 1

\* for attempt in range(self.max_retries): there is an iteration after this one
LoopContinues(attempt) == attempt + 1 < max_retries

\* if attempt < self.max_retries - 1: sleep before the next iteration
RetryAgain(attempt) == attempt < max_retries - 1

\* mutant: the delay does not grow
Delay_Flat(attempt) == base_delay

\* delay = self.base_delay * (2**attempt)
Delay(attempt) == base_delay * (2 ^ attempt)

\* mutant: the fallback returns whatever the dict holds, [] included
StaleAvailable_Always(ch) == TRUE

\* the except clause of get_policy_aliases falls back to the cache when
\* self.cache.get("aliases") is truthy: the key is set and the list non-empty
StaleAvailable(ch) == ch.has /\ ch.aliases # <<>>

\* get_policy_aliases ends, returning value
ReturnValue(c, value) ==
    [call[c] EXCEPT !.pc = "done", !.outcome = "returned", !.value = value]

\* execute raised err into get_policy_aliases: stale cache or re-raise
Failed(c, err) ==
    IF StaleAvailable(cache)
    THEN ReturnValue(c, cache.aliases)
    ELSE [call[c] EXCEPT !.pc = "done", !.outcome = "raised", !.error = err]

\* mutant: an empty fetched list leaves the cached one in place
Stored_UnlessEmpty(ch, aliases) ==
    IF aliases = <<>> THEN ch ELSE [has |-> TRUE, aliases |-> aliases]

\* mutant: the fetched list is appended to the cached one
Stored_Extended(ch, aliases) == [has |-> TRUE, aliases |-> ch.aliases \o aliases]

\* self.cache["aliases"] = aliases: the dict after the assignment
Stored(ch, aliases) == [has |-> TRUE, aliases |-> aliases]

\* mutant: the stale fallback stamps the cache as if it had been fetched
Resume_StaleTouches(c, t) ==
    /\ call[c].pc = "resume"
    /\ LET run == call[c].run
           attempt == call[c].attempt
           err == Err(run.kind, attempt)
       IN IF ~run.raised
          THEN /\ ClockReads(t)
               /\ now' = t
               /\ cache' = Stored(cache, run.all_aliases)
               /\ cache_timestamp' = t
               /\ call' = [call EXCEPT ![c] =
                              [ReturnValue(c, run.all_aliases) EXCEPT
                                  !.wrote = TRUE, !.fetchedAt = t]]
          ELSE /\ t = now
               /\ UNCHANGED <<cache, now>>
               /\ IF ExceptClause(run.kind) # "transient"
                  THEN /\ call' = [call EXCEPT ![c] =
                                      [Failed(c, err) EXCEPT !.last_exception =
                                          IF ExceptClause(run.kind) = "auth"
                                          THEN @ ELSE err]]
                       /\ cache_timestamp' = IF StaleAvailable(cache) THEN now
                                             ELSE cache_timestamp
                  ELSE /\ UNCHANGED cache_timestamp
                       /\ IF RetryAgain(attempt)
                          THEN call' = [call EXCEPT
                                           ![c].pc = "sleeping",
                                           ![c].last_exception = err,
                                           ![c].slept = Append(@, Delay(attempt))]
                          ELSE IF LoopContinues(attempt)
                          THEN call' = [call EXCEPT
                                           ![c].pc = "list",
                                           ![c].last_exception = err,
                                           ![c].attempt = @ + 1]
                          ELSE call' = [call EXCEPT ![c] =
                                           [Failed(c, err) EXCEPT
                                               !.last_exception = err]]
    /\ UNCHANGED <<cache_duration, nextId, request>>

\* the run's future is done and the event loop resumes the coroutine inside
\* execute: the result is returned and cached, or the exception is handled
Resume(c, t) ==
    /\ call[c].pc = "resume"
    /\ LET run == call[c].run
           attempt == call[c].attempt
           err == Err(run.kind, attempt)
       IN IF ~run.raised
          THEN /\ ClockReads(t)
               /\ now' = t
               /\ cache' = Stored(cache, run.all_aliases)
               /\ cache_timestamp' = t
               /\ call' = [call EXCEPT ![c] =
                              [ReturnValue(c, run.all_aliases) EXCEPT
                                  !.wrote = TRUE, !.fetchedAt = t]]
          ELSE /\ t = now
               /\ UNCHANGED <<cache, cache_timestamp, now>>
               /\ IF ExceptClause(run.kind) = "auth"
                  THEN \* the auth clause re-raises; last_exception is not set
                       call' = [call EXCEPT ![c] = Failed(c, err)]
                  ELSE IF ExceptClause(run.kind) = "other"
                  THEN \* the last clause sets last_exception and re-raises
                       call' = [call EXCEPT ![c] =
                                   [Failed(c, err) EXCEPT !.last_exception = err]]
                  ELSE IF RetryAgain(attempt)
                  THEN \* await asyncio.sleep(delay)
                       call' = [call EXCEPT
                                   ![c].pc = "sleeping",
                                   ![c].last_exception = err,
                                   ![c].slept = Append(@, Delay(attempt))]
                  ELSE IF LoopContinues(attempt)
                  THEN \* no sleep: straight into the next iteration
                       call' = [call EXCEPT
                                   ![c].pc = "list",
                                   ![c].last_exception = err,
                                   ![c].attempt = @ + 1]
                  ELSE \* the loop is over: raise last_exception
                       call' = [call EXCEPT ![c] =
                                   [Failed(c, err) EXCEPT !.last_exception = err]]
    /\ UNCHANGED <<cache_duration, nextId, request>>

\* asyncio.sleep(delay) is over: the next iteration hands the fetch to the
\* executor, or the loop is over and last_exception is raised
WakeUp(c) ==
    /\ call[c].pc = "sleeping"
    /\ IF LoopContinues(call[c].attempt)
       THEN call' = [call EXCEPT ![c].pc = "list", ![c].attempt = @ + 1]
       ELSE call' = [call EXCEPT ![c] = Failed(c, call[c].last_exception)]
    /\ UNCHANGED <<cache, cache_timestamp, cache_duration, now, nextId, request>>

(* -------------------------------- str ----------------------------------- *)
\* the i-th character of a string
Char(s, i) == SubSeq(s, i, i)

UpperLetters == "ABCDEFGHIJKLMNOPQRSTUVWXYZ"
LowerLetters == "abcdefghijklmnopqrstuvwxyz"

\* the characters of the model's strings, in code point order
CodePoints == "\t ./0123456789" \o UpperLetters \o LowerLetters

\* ord(ch), up to the order of the code points
OrdTable ==
    [ch \in {Char(CodePoints, i) : i \in 1..Len(CodePoints)} |->
        CHOOSE i \in 1..Len(CodePoints) : Char(CodePoints, i) = ch]
Ord(ch) == OrdTable[ch]

\* ch.lower() of one character
LowerTable ==
    [ch \in {Char(UpperLetters, i) : i \in 1..Len(UpperLetters)} |->
        Char(LowerLetters, CHOOSE i \in 1..Len(UpperLetters) : Char(UpperLetters, i) = ch)]
LowerChar(ch) == IF ch \in DOMAIN LowerTable THEN LowerTable[ch] ELSE ch

\* s[i:].lower()
RECURSIVE LowerFrom(_, _)
LowerFrom(s, i) ==
    IF i > Len(s) THEN ""
    ELSE LowerChar(Char(s, i)) \o LowerFrom(s, i + 1)

\* s.lower()
lower(s) == LowerFrom(s, 1)

\* ch.isspace()
IsSpace(ch) == ch \in {" ", "\t"}

\* s[i:].split(), with word the characters read since the last whitespace
RECURSIVE SplitFrom(_, _, _)
SplitFrom(s, i, word) ==
    IF i > Len(s) THEN (IF word = "" THEN <<>> ELSE <<word>>)
    ELSE IF IsSpace(Char(s, i))
         THEN (IF word = "" THEN <<>> ELSE <<word>>) \o SplitFrom(s, i + 1, "")
         ELSE SplitFrom(s, i + 1, word \o Char(s, i))

\* s.split(): the maximal runs of characters that are no whitespace
split(s) == SplitFrom(s, 1, "")

\* sep.join(parts)
RECURSIVE join(_, _)
join(sep, parts) ==
    IF parts = <<>> THEN ""
    ELSE IF Len(parts) = 1 THEN parts[1]
    ELSE parts[1] \o sep \o join(sep, Tail(parts))

\* term in text
Contains(term, text) ==
    \E i \in 1..(Len(text) - Len(term) + 1) : SubSeq(text, i, i + Len(term) - 1) = term

\* a < b on strings: by code points, a proper prefix first
RECURSIVE StrLess(_, _)
StrLess(a, b) ==
    IF b = "" THEN FALSE
    ELSE IF a = "" THEN TRUE
    ELSE IF Char(a, 1) # Char(b, 1) THEN Ord(Char(a, 1)) < Ord(Char(b, 1))
    ELSE StrLess(SubSeq(a, 2, Len(a)), SubSeq(b, 2, Len(b)))

\* bool(s) of an optional string: neither None nor ""
Truthy(s) == s # None /\ s # ""

\* s or ""
OrEmpty(s) == IF Truthy(s) THEN s ELSE ""

(* ---------------------------- search_aliases ---------------------------- *)
\* the text of an alias the query terms are looked up in
searchable_text(alias) ==
    lower(join(" ", << alias.namespace, alias.resource_type, alias.alias_name,
                       OrEmpty(alias.default_path) >>))

\* query_terms of a query
query_terms(query) ==
    LET query_lower == IF Truthy(query) THEN lower(query) ELSE ""
    IN IF Truthy(query_lower) THEN split(query_lower) ELSE <<>>

\* mutant: one matching term is enough
AllTermsMatch_Any(terms, text) ==
    terms = <<>> \/ \E k \in 1..Len(terms) : Contains(terms[k], text)

\* mutant: the first term alone is looked up
AllTermsMatch_First(terms, text) == terms = <<>> \/ Contains(terms[1], text)

\* all(term in searchable_text for term in query_terms)
AllTermsMatch(terms, text) == \A k \in 1..Len(terms) : Contains(terms[k], text)

\* the body of the loop: the alias is kept
Kept(alias, terms, namespace_filter) ==
    /\ ~(Truthy(namespace_filter) /\ alias.namespace # namespace_filter)
    /\ (terms # <<>> => AllTermsMatch(terms, searchable_text(alias)))

\* the loop over the aliases
RECURSIVE filtered_aliases(_, _, _)
filtered_aliases(aliases, terms, namespace_filter) ==
    IF aliases = <<>> THEN <<>>
    ELSE (IF Kept(Head(aliases), terms, namespace_filter)
          THEN <<Head(aliases)>> ELSE <<>>)
         \o filtered_aliases(Tail(aliases), terms, namespace_filter)

\* what search_aliases returns for the list get_policy_aliases() gave it
SearchResult(aliases, query, namespace_filter) ==
    IF ~Truthy(query) /\ ~Truthy(namespace_filter) THEN aliases
    ELSE filtered_aliases(aliases, query_terms(query), namespace_filter)

(* ------------- get_namespaces_with_counts and get_statistics ------------ *)
\* d[ns] = d.get(ns, 0) + 1 on a dict, kept as its items in insertion order
Increment(d, ns) ==
    IF \E i \in 1..Len(d) : d[i].namespace = ns
    THEN [i \in 1..Len(d) |->
             IF d[i].namespace = ns THEN [d[i] EXCEPT !.count = @ + 1] ELSE d[i]]
    ELSE Append(d, [namespace |-> ns, count |-> 1])

\* the counting loop: namespace_counts / types_by_namespace
RECURSIVE namespace_counts(_)
namespace_counts(aliases) ==
    IF aliases = <<>> THEN <<>>
    ELSE Increment(namespace_counts(SubSeq(aliases, 1, Len(aliases) - 1)),
                   aliases[Len(aliases)].namespace)

\* a sort key: a number, then a string
Key(num, str) == [num |-> num, str |-> str]
KeyLess(a, b) == a.num < b.num \/ (a.num = b.num /\ StrLess(a.str, b.str))

\* sorted(items, key=..., reverse=...), keys[i] the key of items[i]: the
\* sort is stable, with reverse too
sorted(items, keys, reverse) ==
    LET n == Len(items)
        Strictly(j, i) == IF reverse THEN KeyLess(keys[i], keys[j])
                          ELSE KeyLess(keys[j], keys[i])
        Tie(j, i) == ~KeyLess(keys[i], keys[j]) /\ ~KeyLess(keys[j], keys[i])
        Precedes(j, i) == Strictly(j, i) \/ (Tie(j, i) /\ j < i)
        rank == [i \in 1..n |-> 1 + Cardinality({j \in 1..n : Precedes(j, i)})]
    IN [r \in 1..n |-> items[CHOOSE i \in 1..n : rank[i] = r]]

\* mutant: ties keep the order of first occurrence
CountsKey_CountOnly(item) == Key(0 - item.count, "")

\* key=lambda x: (-x[1], x[0])
CountsKey(item) == Key(0 - item.count, item.namespace)

\* what get_namespaces_with_counts returns
NamespacesWithCounts(aliases) ==
    LET items == namespace_counts(aliases)
    IN sorted(items, [i \in 1..Len(items) |-> CountsKey(items[i])], FALSE)

\* the length of the slice [:10] of top_namespaces
TopLimit == 10

\* mutant: the slice is not taken
Slice_Whole(seq, n) == seq

\* seq[:n]
Slice(seq, n) == SubSeq(seq, 1, IF Len(seq) < n THEN Len(seq) ELSE n)

\* key=lambda x: x[1]
StatsKey(item) == Key(item.count, "")

\* top_namespaces of get_statistics
TopNamespaces(aliases) ==
    LET items == namespace_counts(aliases)
    IN Slice(sorted(items, [i \in 1..Len(items) |-> StatsKey(items[i])], TRUE),
             TopLimit)

\* what get_statistics returns, with t the reading of the clock for
\* cache_age_seconds and t2 the later one of _is_cache_valid
Statistics(aliases, ch, ts, dur, t, t2) ==
    [ total_aliases        |-> Len(aliases),
      total_namespaces     |->
          Cardinality({aliases[i].namespace : i \in 1..Len(aliases)}),
      total_resource_types |->
          Cardinality({aliases[i].namespace \o "/" \o aliases[i].resource_type :
                          i \in 1..Len(aliases)}),
      cache_age_seconds    |-> IF ts # NoTimestamp THEN <<t - ts>> ELSE <<>>,
      cache_valid          |-> _is_cache_valid(ch, ts, dur, t2),
      top_namespaces       |-> TopNamespaces(aliases) ]

(* ------------------------- the query operations ------------------------ *)
\* the operation req goes on after `aliases = await self.get_policy_aliases()`
\* (or, in the handler, after either await) ended as the call k did: an
\* exception passes through, a list is worked into the reply
QueryReply(req, k, ch, ts, dur, t, t2) ==
    IF k.outcome = "raised"
    THEN [req EXCEPT !.pc = "done", !.outcome = "raised"]
    ELSE [req EXCEPT
             !.pc = "done",
             !.outcome = "returned",
             !.reply =
                 IF req.op = "search_aliases"
                 THEN SearchResult(k.value, req.query, req.namespace_filter)
                 ELSE IF req.op = "get_namespaces_with_counts"
                 THEN NamespacesWithCounts(k.value)
                 ELSE IF req.op = "get_statistics"
                 THEN Statistics(k.value, ch, ts, dur, t, t2)
                 ELSE k.value]

\* the operation req begins with a get_policy_aliases call, which reads the
\* clock at t; when that is served from the cache the coroutine is never
\* suspended and goes on at once, get_statistics reading the clock again at
\* t1 and at t2
Await(c, req, force_refresh, t, t1, t2) ==
    /\ request[c].pc # "await"
    /\ Begin(c, force_refresh, t)
    /\ IF call'[c].pc = "done" /\ req.op = "get_statistics"
       THEN t1 \in t..MaxTime /\ t2 \in t1..MaxTime
       ELSE t1 = t /\ t2 = t
    /\ now' = t2
    /\ request' = [request EXCEPT ![c] =
                      IF call'[c].pc = "done"
                      THEN QueryReply(req, call'[c], cache, cache_timestamp,
                                      cache_duration, t1, t2)
                      ELSE req]

\* the frame of an operation that awaits get_policy_aliases
Request(handler, op, query, namespace_filter, force_refresh) ==
    [NoRequest EXCEPT !.handler = handler, !.op = op, !.pc = "await",
                      !.query = query, !.namespace_filter = namespace_filter,
                      !.force_refresh = force_refresh]

\* AzurePolicyService.search_aliases(query, namespace_filter)
search_aliases(c, query, namespace_filter, t) ==
    Await(c, Request("none", "search_aliases", query, namespace_filter, FALSE),
          FALSE, t, t, t)

\* AzurePolicyService.get_namespaces_with_counts()
get_namespaces_with_counts(c, t) ==
    Await(c, Request("none", "get_namespaces_with_counts", None, None, FALSE),
          FALSE, t, t, t)

\* AzurePolicyService.get_statistics(): the clock reads t in get_policy_aliases
\* and, when that is served from the cache, t1 and t2 for the reply
get_statistics(c, t, t1, t2) ==
    Await(c, Request("none", "get_statistics", None, None, FALSE), FALSE,
          t, t1, t2)

\* GET /api/aliases: the handler get_aliases(query, namespace, force_refresh);
\* its search branch calls search_aliases(query or "", namespace), which has
\* no force_refresh parameter and calls get_policy_aliases()
get_aliases(c, query, namespace, force_refresh, t) ==
    IF Truthy(query) \/ Truthy(namespace)
    THEN Await(c, Request("get_aliases", "search_aliases", OrEmpty(query),
                          namespace, force_refresh),
               FALSE, t, t, t)
    ELSE Await(c, Request("get_aliases", "get_policy_aliases", query, namespace,
                          force_refresh),
               force_refresh, t, t, t)

\* get_policy_aliases has ended and the operation that awaited it goes on;
\* get_statistics reads the clock twice, at t and at t2
Continue(c, t, t2) ==
    /\ request[c].pc = "await"
    /\ call[c].pc = "done"
    /\ IF request[c].op = "get_statistics" /\ call[c].outcome = "returned"
       THEN ClockReads(t) /\ t2 \in t..MaxTime
       ELSE t = now /\ t2 = now
    /\ now' = t2
    /\ request' = [request EXCEPT ![c] =
                      QueryReply(request[c], call[c], cache, cache_timestamp,
                                 cache_duration, t, t2)]
    /\ UNCHANGED <<cache, cache_timestamp, cache_duration, call, nextId>>

(* ---- Spec: calls in sequence over the cache ------------------------------ *)
Step(c) ==
    \/ \E force_refresh \in BOOLEAN, t \in 0..MaxTime :
          get_policy_aliases(c, force_refresh, t) /\ UNCHANGED request
    \/ \E n \in 0..MaxListed : ListNamespacesOk(c, Listing(n))
    \/ ListNamespacesFail(c)
    \/ \E i \in 1..MaxListed : UnitStart(c, i)
    \/ \E i \in 1..MaxListed : UnitComplete(c, i)
    \/ \E i \in 1..MaxListed : Merge(c, i)
    \/ FetchReturn(c)
    \/ \E t \in 0..MaxTime : Resume(c, t)
    \/ WakeUp(c)

Next == \E c \in MainCallers : Step(c)

Spec == Init /\ [][Next]_vars

(* ---- SpecFilled: the same calls, over a cache an earlier fetch has filled - *)
\* the list of an earlier fetch: the first namespace of the catalogue, one
\* resource type with one alias
FilledList ==
    FlattenAliases(NamespaceAt(1),
                   << [resource_type |-> "rtA",
                       aliases |-> <<RemoteAlias("a1", "p1", <<>>)>>] >>)

\* that fetch ended at time 0
InitFilled ==
    /\ cache = Stored(NoCache, FilledList)
    /\ cache_timestamp = 0
    /\ cache_duration \in 1..MaxTTL
    /\ now = 0
    /\ call = [c \in Callers |-> IdleCall]
    /\ nextId = 1
    /\ request = [c \in Callers |-> NoRequest]

SpecFilled == InitFilled /\ [][Next]_vars

(* ---- SpecFetch: one call, the fan-out with its workers interleaved ------ *)
FetchStep(c) ==
    \/ \E force_refresh \in BOOLEAN :
          nextId = 1 /\ get_policy_aliases(c, force_refresh, now)
                     /\ UNCHANGED request
    \/ \E n \in 0..MaxNamespaces : ListNamespacesOk(c, Listing(n))
    \/ ListNamespacesFail(c)
    \/ \E i \in 1..MaxNamespaces : UnitStart(c, i)
    \/ \E i \in 1..MaxNamespaces : UnitComplete(c, i)
    \/ \E i \in 1..MaxNamespaces : Merge(c, i)
    \/ FetchReturn(c)
    \/ Resume(c, now)
    \/ WakeUp(c)

NextFetch == \E c \in MainCallers : FetchStep(c)

SpecFetch == Init /\ [][NextFetch]_vars

(* ---- SpecOverlap: two coroutines, one call each, their fetches overlap --- *)
\* what providers.get does in these behaviours: it answers with two resource
\* types of one alias each, or it raises an AzureError
OverlapResponses ==
    { r \in Responses : (r.ok /\ Len(r.detail) = 2) \/ r.kind = "AzureError" }

\* and how providers.list fails in them
OverlapListError == "AzureError"

\* the event loop runs a coroutine until it awaits, so the steps of the two
\* calls interleave at run_in_executor; the two runs of _fetch_aliases_sync
\* are on two threads of self._executor, each with its own locals. The clock
\* stands still.
OverlapStep(c) ==
    \/ \E force_refresh \in BOOLEAN :
          /\ call[c].pc = "idle"
          /\ get_policy_aliases(c, force_refresh, now)
          /\ UNCHANGED request
    \/ \E n \in 0..MaxNamespaces : ListNamespacesOk(c, Listing(n))
    \/ ListNamespacesRaises(c, OverlapListError)
    \/ \E i \in 1..MaxNamespaces : UnitStart(c, i)
    \/ \E i \in 1..MaxNamespaces :
          /\ i \in DOMAIN call[c].run.units
          /\ \E resp \in IF call[c].run.units[i].namespace = "" THEN {NoResponse}
                         ELSE OverlapResponses :
                UnitCompleteWith(c, i, resp)
    \/ \E i \in 1..MaxNamespaces : Merge(c, i)
    \/ FetchReturn(c)
    \/ Resume(c, now)

NextOverlap == \E c \in Callers : OverlapStep(c)

\* the service was constructed with the longest TTL
InitOverlap == Init /\ cache_duration = MaxTTL

SpecOverlap == InitOverlap /\ [][NextOverlap]_vars

(* ---- SpecQuery: the query operations over a cache that is valid --------- *)
\* the aliases the short cached lists are made of: what fetch_provider_aliases
\* makes of the details of two namespaces
AliasPool ==
    UNION { { FlattenAliases(ns, d)[i] : i \in 1..Len(FlattenAliases(ns, d)) } :
            ns \in {"Microsoft.A", "Microsoft.B"}, d \in Details }

\* the lists over AliasPool of length n
RECURSIVE ListsOfLen(_)
ListsOfLen(n) ==
    IF n = 0 THEN {<<>>}
    ELSE { Append(l, a) : l \in ListsOfLen(n - 1), a \in AliasPool }

\* the i-th namespace of a wide listing
WideNamespace(i) == "Ns." \o Char(UpperLetters, i)

\* the list of a fetch over n namespaces with one alias each, followed, when
\* k > 0, by a second alias of the k-th of them
WideList(n, k) ==
    [i \in 1..n |-> AliasDict(WideNamespace(i), "rtA", RemoteAlias("a1", "p1", <<>>))]
    \o (IF k = 0 THEN <<>>
        ELSE <<AliasDict(WideNamespace(k), "rtB", RemoteAlias("a2", None, <<>>))>>)

\* the list of a fetch over two namespaces, one of them with a "/" in its
\* name, whose resource types are such that both aliases have the same
\* f"{ns}/{resource_type}"
SlashList ==
    << AliasDict("Ns/A", "rtA", RemoteAlias("a1", "p1", <<>>)),
       AliasDict("Ns", "A/rtA", RemoteAlias("a1", "p1", <<>>)) >>

\* the lists the cache may hold when the queries begin
CachedLists ==
    UNION { ListsOfLen(n) : n \in 0..MaxCached }
    \cup UNION { { WideList(n, k) : k \in {0, 1, n} } : n \in (TopLimit - 1)..MaxWide }
    \cup {SlashList}

\* the queries and the namespace filters of the searches
Queries == {"", " ", "rtb a2", "a2 rtb a2", "rta a2", "A2\trtA", "art"}
Filters == {None, "", "Microsoft.A"}

\* a successful fetch has filled the cache at time 0 and it stays valid
InitQuery ==
    /\ cache \in { [has |-> TRUE, aliases |-> l] : l \in CachedLists }
    /\ cache_timestamp = 0
    /\ cache_duration = MaxTTL
    /\ now = 0
    /\ call = [c \in Callers |-> IdleCall]
    /\ nextId = 1
    /\ request = [c \in Callers |-> NoRequest]

QueryStep(c) ==
    \/ \E query \in Queries, namespace_filter \in Filters :
          search_aliases(c, query, namespace_filter, now)
    \/ get_namespaces_with_counts(c, now)
    \/ get_statistics(c, now, now, now)

NextQuery == \E c \in MainCallers : QueryStep(c)

SpecQuery == InitQuery /\ [][NextQuery]_vars

(* ---- SpecApi: GET /api/aliases requests in sequence, the clock at rest -- *)
\* the query and namespace parameters of the requests
ApiQueries == {None, "a2"}
ApiNamespaces == {None, "Microsoft.A"}

ApiStep(c) ==
    \/ \E query \in ApiQueries, namespace \in ApiNamespaces, force_refresh \in BOOLEAN :
          get_aliases(c, query, namespace, force_refresh, now)
    \/ \E n \in 0..MaxListed : ListNamespacesOk(c, Listing(n))
    \/ ListNamespacesFail(c)
    \/ \E i \in 1..MaxListed : UnitStart(c, i)
    \/ \E i \in 1..MaxListed : UnitComplete(c, i)
    \/ \E i \in 1..MaxListed : Merge(c, i)
    \/ FetchReturn(c)
    \/ Resume(c, now)
    \/ WakeUp(c)
    \/ Continue(c, now, now)

NextApi == \E c \in MainCallers : ApiStep(c)

SpecApi == Init /\ [][NextApi]_vars

(* ======================================================================= *)
(*                               the claims                                *)
(* ======================================================================= *)
\* the transient classes RetryWithBackoff names
TransientKinds == {"ServiceRequestError", "HttpResponseError"}

\* the last run of func in call k raised
FetchFailed(k) ==
    /\ k.invocations # <<>>
    /\ k.invocations[Len(k.invocations)].kind # None

\* the exception the last run of func in call k raised
LastError(k) ==
    Err(k.invocations[Len(k.invocations)].kind, Len(k.invocations) - 1)

\* number of aliases the units of the index set S returned
RECURSIVE SumAliases(_, _)
SumAliases(units, S) ==
    IF S = {} THEN 0
    ELSE LET i == CHOOSE x \in S : TRUE
         IN Len(units[i].result.aliases) + SumAliases(units, S \ {i})

\* C1: when a call that fetched successfully is followed, within the TTL, by
\* a call without force_refresh, the second call runs no fetch at all (no
\* _fetch_aliases_sync run, no providers.list, no providers.get) and returns
\* the cached list; the two calls together ran as many fetches as the first
\* one alone, which is exactly one when its run succeeded. This holds for
\* every TTL and every fetched list, the empty one included.
C1_SecondCallWithinTtlFetchesNothing ==
    \A c \in Callers :
        LET k == call[c] IN
        (k.pc = "done" /\ ~k.force_refresh /\ k.prev_runs >= 1 /\ k.fresh0)
        => /\ k.invocations = <<>>
           /\ k.listCalls = 0
           /\ k.detailCalls = 0
           /\ k.outcome = "returned"
           /\ k.value = cache.aliases
           /\ cache_timestamp = k.ts0
           /\ (k.prev_runs = 1 => k.prev_runs + Len(k.invocations) = 1)

\* C1 witness: the third call of a behaviour is served an empty cached list
\* that the second call fetched in one run
C1_Witness ==
    \E c \in Callers :
        /\ call[c].pc = "done" /\ ~call[c].force_refresh
        /\ call[c].prev_runs = 1 /\ call[c].fresh0
        /\ call[c].id = 3
        /\ cache.has /\ call[c].value = <<>>

\* C2 (as claimed): whenever the fetch of a call fails and an earlier fetch
\* has populated the cache, the call returns the cached list instead of
\* raising, also when that list is empty
C2_StaleReturnedWhenFetchFails ==
    \A c \in Callers :
        LET k == call[c] IN
        (k.pc = "done" /\ FetchFailed(k) /\ k.had0)
        => /\ k.outcome = "returned"
           /\ k.value = cache.aliases

\* C3: when the fetch of a call fails and no fetch has ever populated the
\* cache, the call raises the error the fetch ended with and returns nothing,
\* with force_refresh and without
C3_RaisesWithoutCache ==
    \A c \in Callers :
        LET k == call[c] IN
        (k.pc = "done" /\ FetchFailed(k) /\ ~k.had0)
        => /\ k.outcome = "raised"
           /\ k.error = LastError(k)
           /\ k.value = <<>>
           /\ ~cache.has

\* C3 witness: a forced call on the empty cache has raised after its retries
C3_Witness ==
    \E c \in Callers :
        /\ call[c].pc = "done" /\ call[c].force_refresh /\ ~call[c].had0
        /\ Len(call[c].invocations) = max_retries
        /\ call[c].outcome = "raised"
        /\ call[c].error.kind = "ServiceRequestError"

\* C4 (as claimed): when a fetch whose listing answered has merged all its
\* futures, all_aliases holds exactly the aliases of the namespaces whose
\* providers.get call answered, and failed_providers holds exactly the
\* namespaces whose providers.get call raised
C4_FailureReportNamesEveryFailure ==
    \A c \in Callers :
        LET run == call[c].run
            N == DOMAIN run.units
            failing == {i \in N : run.units[i].failed}
        IN (call[c].pc = "resume" /\ ~run.raised /\ run.units # <<>>)
           => /\ Len(run.all_aliases) = SumAliases(run.units, N \ failing)
              /\ \A i \in N \ failing :
                    \A j \in 1..Len(run.units[i].result.aliases) :
                        \E m \in 1..Len(run.all_aliases) :
                            run.all_aliases[m] = run.units[i].result.aliases[j]
              /\ Len(run.failed_providers) = Cardinality(failing)
              /\ {run.failed_providers[m] : m \in 1..Len(run.failed_providers)}
                    = {run.units[i].namespace : i \in failing}

\* C5: a call made when the cache holds data and the TTL has elapsed runs a
\* fresh fetch; when that fetch succeeds, cache_timestamp is strictly later
\* than before the call and the call returns the list just fetched
C5_ExpiredCacheIsRefetched ==
    \A c \in Callers :
        LET k == call[c] IN
        (k.pc = "done" /\ k.had0 /\ ~k.fresh0)
        => /\ k.invocations # <<>>
           /\ k.listCalls >= 1
           /\ (~FetchFailed(k)
               => /\ k.wrote
                  /\ k.fetchedAt > k.ts0
                  /\ cache_timestamp = k.fetchedAt
                  /\ k.outcome = "returned"
                  /\ k.value = k.run.all_aliases
                  /\ cache = [has |-> TRUE, aliases |-> k.run.all_aliases])

\* C5 witness: an unforced call on an expired cache has replaced a non-empty
\* list by a fetched list of another length
C5_Witness ==
    \E c \in Callers :
        /\ call[c].pc = "done" /\ ~call[c].force_refresh
        /\ call[c].had0 /\ ~call[c].fresh0
        /\ call[c].wrote /\ call[c].fetchedAt > call[c].ts0
        /\ call[c].prev_runs >= 1
        /\ Len(call[c].value) = 1

\* C6: a call with force_refresh has called providers.list at least once
\* before it returns or raises, whatever the cache held when it was made
C6_ForceRefreshAlwaysFetches ==
    \A c \in Callers :
        (call[c].force_refresh /\ call[c].pc = "done")
        => /\ call[c].listCalls >= 1
           /\ call[c].invocations # <<>>

\* C6 witness: a forced call made on a valid cache has fetched and returned
C6_Witness ==
    \E c \in Callers :
        /\ call[c].pc = "done" /\ call[c].force_refresh
        /\ call[c].had0 /\ call[c].fresh0
        /\ call[c].listCalls = 1 /\ call[c].wrote

\* C7: execute runs func at most max_retries times; a run that returns is
\* the last one and the call returns its result; when every run raised a
\* transient error there were exactly max_retries runs and execute raised
\* the error of the last one
C7_AtMostMaxRetriesInvocations ==
    \A c \in Callers :
        LET k == call[c]
            inv == k.invocations
        IN /\ Len(inv) <= max_retries
           /\ \A i \in 1..Len(inv) :
                 inv[i].kind = None
                 => /\ i = Len(inv)
                    /\ k.pc \in {"resume", "done"}
                    /\ (k.pc = "done"
                        => k.outcome = "returned" /\ k.value = k.run.all_aliases)
           /\ (k.pc = "done" /\ inv # <<>>
               /\ \A i \in 1..Len(inv) : inv[i].kind \in TransientKinds)
              => /\ Len(inv) = max_retries
                 /\ k.last_exception = Err(inv[max_retries].kind, max_retries - 1)
                 /\ (k.outcome = "raised" => k.error = k.last_exception)

\* C7 witness: three runs raised transient errors of both classes and the
\* call raised the third
C7_Witness ==
    \E c \in Callers :
        /\ call[c].pc = "done" /\ call[c].outcome = "raised"
        /\ Len(call[c].invocations) = max_retries
        /\ call[c].invocations[1].kind = "HttpResponseError"
        /\ call[c].invocations[2].kind = "ServiceRequestError"
        /\ call[c].invocations[3].kind = "HttpResponseError"
        /\ call[c].error = Err("HttpResponseError", 2)

\* C8: a run of func that raises an authentication error, or any error that
\* is not transient, is the last run: no sleep and no run follows it, at
\* whichever attempt it happens, and execute raises that very error
C8_NonTransientErrorsAreNotRetried ==
    \A c \in Callers :
        LET k == call[c]
            inv == k.invocations
        IN \A i \in 1..Len(inv) :
              (inv[i].kind # None /\ inv[i].kind \notin TransientKinds)
              => /\ i = Len(inv)
                 /\ Len(k.slept) = i - 1
                 /\ k.pc \in {"resume", "done"}
                 /\ (k.pc = "done"
                     => /\ k.last_exception =
                              IF inv[i].kind # "ClientAuthenticationError"
                              THEN Err(inv[i].kind, i - 1)
                              ELSE IF i = 1 THEN NoErr
                              ELSE Err(inv[i - 1].kind, i - 2)
                        /\ (k.outcome = "raised" => k.error = Err(inv[i].kind, i - 1)))

\* C8 witness: an authentication error at the second attempt ended the call
\* after the one sleep that preceded it
C8_Witness ==
    \E c \in Callers :
        /\ call[c].pc = "done" /\ call[c].outcome = "raised"
        /\ Len(call[c].invocations) = 2
        /\ call[c].invocations[2].kind = "ClientAuthenticationError"
        /\ call[c].slept = <<1>>
        /\ call[c].error = Err("ClientAuthenticationError", 1)

\* a failure of providers.list at run i of a finished call was retried: a
\* sleep and another run followed it, unless it was the last attempt allowed
ListFailureRetried(k, i) ==
    i < max_retries => (Len(k.invocations) > i /\ Len(k.slept) >= i)

\* C9 (as claimed): every failure of providers.list that is not an
\* authentication error is retried under the backoff policy, and an
\* authentication error is not retried
C9_EveryListFailureRetried ==
    \A c \in Callers :
        LET k == call[c]
            inv == k.invocations
        IN k.pc = "done"
           => \A i \in 1..Len(inv) :
                 ~inv[i].listed
                 => IF inv[i].kind = "ClientAuthenticationError"
                    THEN i = Len(inv)
                    ELSE ListFailureRetried(k, i)

\* C9 (amended): a failure of providers.list ends the run before any unit of
\* work is submitted and reaches execute unchanged; it is retried under the
\* backoff policy (max_retries attempts in total) exactly when it is a
\* ServiceRequestError or an HttpResponseError other than an authentication
\* error; an authentication error and any other error are not retried
C9_TransientListFailuresRetried ==
    \A c \in Callers :
        LET k == call[c]
            inv == k.invocations
        IN /\ (k.pc = "resume" /\ k.listCalls > 0 /\ ~inv[Len(inv)].listed)
              => /\ k.run.raised /\ k.run.units = <<>>
                 /\ k.run.kind = inv[Len(inv)].kind
           /\ k.listCalls <= max_retries
           /\ k.pc = "done"
              => \A i \in 1..Len(inv) :
                    ~inv[i].listed
                    => IF inv[i].kind \in TransientKinds
                       THEN ListFailureRetried(k, i)
                       ELSE i = Len(inv) /\ Len(k.slept) = i - 1

\* C9 witness: two transient failures of providers.list were each followed
\* by a sleep and a new run, and a third failure of another class ended the call
C9_Witness ==
    \E c \in Callers :
        /\ call[c].pc = "done"
        /\ Len(call[c].invocations) = 3
        /\ \A i \in 1..3 : ~call[c].invocations[i].listed
        /\ call[c].invocations[1].kind = "ServiceRequestError"
        /\ call[c].invocations[2].kind = "HttpResponseError"
        /\ call[c].invocations[3].kind = "AzureError"
        /\ call[c].slept = <<1, 2>>

\* C10: when providers.list answers at the first attempt of a call, execute
\* runs the fetch once: the run returns normally whatever the providers.get
\* calls raise, no sleep and no second run follows, and the call caches and
\* returns the result
C10_UnitFailuresNeverRetried ==
    \A c \in Callers :
        LET k == call[c]
            inv == k.invocations
        IN /\ (k.pc = "fanout" /\ k.attempt = 0) => inv = <<>> /\ ~k.run.raised
           /\ (inv # <<>> /\ inv[1].listed)
              => /\ inv = <<Invocation(TRUE, None)>>
                 /\ k.listCalls = 1
                 /\ k.slept = <<>>
                 /\ ~k.run.raised
                 /\ (k.pc = "done" => k.outcome = "returned" /\ k.wrote)

\* C10 witness: a call returned after one run in which every providers.get
\* call raised, one of them an error that is no AzureError
C10_Witness ==
    \E c \in Callers :
        LET units == call[c].run.units IN
        /\ call[c].pc = "done" /\ call[c].outcome = "returned"
        /\ call[c].invocations = <<Invocation(TRUE, None)>>
        /\ Len(units) = 3
        /\ units[1].failed /\ units[1].result.raised
        /\ units[3].failed /\ ~units[3].result.raised
        /\ call[c].detailCalls = 2

\* the lowercase terms of a query
Terms(query) == split(lower(OrEmpty(query)))

\* the four text fields of an alias one after the other, in lowercase
ConcatText(a) ==
    lower(a.namespace \o a.resource_type \o a.alias_name \o OrEmpty(a.default_path))

\* the same with a space between two fields
SpacedText(a) ==
    lower(a.namespace) \o " " \o lower(a.resource_type) \o " "
    \o lower(a.alias_name) \o " " \o lower(OrEmpty(a.default_path))

\* alias a passes the filter and its text holds every term of the query
Wanted(a, query, namespace_filter, text) ==
    /\ Truthy(namespace_filter) => a.namespace = namespace_filter
    /\ Truthy(query) => \A k \in 1..Len(Terms(query)) : Contains(Terms(query)[k], text)

\* the subsequence of aliases at the indices of S, from index i on
RECURSIVE Pick(_, _, _)
Pick(aliases, S, i) ==
    IF i > Len(aliases) THEN <<>>
    ELSE (IF i \in S THEN <<aliases[i]>> ELSE <<>>) \o Pick(aliases, S, i + 1)

\* a search that has returned
Searched(r) == r.op = "search_aliases" /\ r.pc = "done" /\ r.outcome = "returned"

\* C11 (as claimed): search_aliases returns, in cached order, exactly the
\* aliases that pass the namespace filter and whose namespace, resource type,
\* alias name and default path, concatenated and in lowercase, hold every
\* lowercase term of the query; with neither query nor filter, the whole list
C11_SearchOverConcatenation ==
    \A c \in Callers :
        LET r == request[c]
            l == cache.aliases
        IN Searched(r)
           => r.reply = Pick(l, {i \in 1..Len(l) :
                                    Wanted(l[i], r.query, r.namespace_filter,
                                           ConcatText(l[i]))}, 1)

\* C11 (amended): the same, the searched text being the four fields joined
\* by single spaces, so that no term matches across two fields
C11_SearchOverJoinedFields ==
    \A c \in Callers :
        LET r == request[c]
            l == cache.aliases
        IN Searched(r)
           => /\ r.reply = Pick(l, {i \in 1..Len(l) :
                                       Wanted(l[i], r.query, r.namespace_filter,
                                              SpacedText(l[i]))}, 1)
              /\ (~Truthy(r.query) /\ ~Truthy(r.namespace_filter)) => r.reply = l

\* C11 witness: a search with two terms and a filter has kept one alias of
\* two, and one for a term that spans two fields has kept none of two
C11_Witness ==
    \E c \in Callers :
        /\ Searched(request[c])
        /\ Len(cache.aliases) = 2
        /\ \/ /\ request[c].query = "rtb a2"
              /\ request[c].namespace_filter = "Microsoft.A"
              /\ Len(request[c].reply) = 1
           \/ /\ request[c].query = "art"
              /\ cache.aliases[1].namespace = "Microsoft.A"
              /\ cache.aliases[1].resource_type = "rtA"
              /\ request[c].reply = <<>>

\* the set of the lowercase terms of a query
TermSet(query) == {Terms(query)[k] : k \in 1..Len(Terms(query))}

\* C12: a search that follows a search over the same cached list, with the
\* same namespace filter and a query of the same set of terms (in another
\* order, repeated, in another case, or the very same query), returns the
\* same result
C12_SearchIgnoresTermOrder ==
    [][ \A c \in Callers :
          ( /\ Searched(request[c]) /\ Searched(request'[c])
            /\ call'[c].id # call[c].id
            /\ cache' = cache
            /\ request'[c].namespace_filter = request[c].namespace_filter
            /\ TermSet(request'[c].query) = TermSet(request[c].query) )
          => request'[c].reply = request[c].reply ]_vars

\* C12 witness: the third search of a behaviour, with its terms repeated, has
\* kept one alias of two
C12_Witness ==
    \E c \in Callers :
        /\ Searched(request[c])
        /\ call[c].id = 3
        /\ request[c].query = "a2 rtb a2"
        /\ Len(cache.aliases) = 2
        /\ Len(request[c].reply) = 1

\* number of aliases of a namespace in a list
CountOf(l, ns) == Cardinality({i \in 1..Len(l) : l[i].namespace = ns})

\* index of the first alias of a namespace in a list
FirstOf(l, ns) == CHOOSE i \in 1..Len(l) :
                     l[i].namespace = ns /\ \A j \in 1..(i - 1) : l[j].namespace # ns

\* sum of the counts of the entries of a reply
RECURSIVE SumCounts(_)
SumCounts(r) == IF r = <<>> THEN 0 ELSE Head(r).count + SumCounts(Tail(r))

\* C13: get_namespaces_with_counts returns one entry per distinct namespace
\* of the cached list, with the number of its aliases; the counts add up to
\* the length of the list; the entries are in descending order of count and,
\* among equal counts, in ascending order of namespace
C13_NamespaceCountsSorted ==
    \A c \in Callers :
        LET r == request[c].reply
            l == cache.aliases
        IN (request[c].op = "get_namespaces_with_counts" /\ request[c].pc = "done")
           => /\ request[c].outcome = "returned"
              /\ {r[i].namespace : i \in 1..Len(r)} = {l[i].namespace : i \in 1..Len(l)}
              /\ Len(r) = Cardinality({l[i].namespace : i \in 1..Len(l)})
              /\ \A i \in 1..Len(r) : r[i].count = CountOf(l, r[i].namespace)
              /\ SumCounts(r) = Len(l)
              /\ \A i \in 1..Len(r) : \A j \in (i + 1)..Len(r) :
                    \/ r[i].count > r[j].count
                    \/ /\ r[i].count = r[j].count
                       /\ StrLess(r[i].namespace, r[j].namespace)

\* C13 witness: over a list that names Microsoft.B before Microsoft.A, once
\* each, the reply lists Microsoft.A first
C13_Witness ==
    \E c \in Callers :
        /\ request[c].op = "get_namespaces_with_counts" /\ request[c].pc = "done"
        /\ Len(cache.aliases) = 2
        /\ cache.aliases[1].namespace = "Microsoft.B"
        /\ cache.aliases[2].namespace = "Microsoft.A"
        /\ request[c].reply = << [namespace |-> "Microsoft.A", count |-> 1],
                                 [namespace |-> "Microsoft.B", count |-> 1] >>

\* C14: top_namespaces of get_statistics has min(10, number of distinct
\* namespaces) entries, each a namespace of the cached list with its count;
\* they are in descending order of count, equal counts in the order of first
\* occurrence in the list, and no namespace left out ranks before one kept
C14_TopNamespacesAtMostTen ==
    \A c \in Callers :
        LET top == request[c].reply.top_namespaces
            l == cache.aliases
            all == {l[i].namespace : i \in 1..Len(l)}
            kept == {top[i].namespace : i \in 1..Len(top)}
        IN (request[c].op = "get_statistics" /\ request[c].pc = "done")
           => /\ request[c].outcome = "returned"
              /\ Len(top) <= 10
              /\ Len(top) = (IF Cardinality(all) < 10 THEN Cardinality(all) ELSE 10)
              /\ kept \subseteq all
              /\ Cardinality(kept) = Len(top)
              /\ \A i \in 1..Len(top) : top[i].count = CountOf(l, top[i].namespace)
              /\ \A i \in 1..Len(top) : \A j \in (i + 1)..Len(top) :
                    \/ top[i].count > top[j].count
                    \/ /\ top[i].count = top[j].count
                       /\ FirstOf(l, top[i].namespace) < FirstOf(l, top[j].namespace)
              /\ \A ns \in all \ kept : \A i \in 1..Len(top) :
                    \/ top[i].count > CountOf(l, ns)
                    \/ /\ top[i].count = CountOf(l, ns)
                       /\ FirstOf(l, top[i].namespace) < FirstOf(l, ns)

\* C14 witness: over a list of twelve namespaces, the twelfth with two
\* aliases, top_namespaces has ten entries, the twelfth namespace first
C14_Witness ==
    \E c \in Callers :
        /\ request[c].op = "get_statistics" /\ request[c].pc = "done"
        /\ Cardinality({cache.aliases[i].namespace : i \in 1..Len(cache.aliases)}) = 12
        /\ Len(request[c].reply.top_namespaces) = 10
        /\ request[c].reply.top_namespaces[1] = [namespace |-> "Ns.L", count |-> 2]
        /\ request[c].reply.top_namespaces[2].namespace = "Ns.A"

\* C15 (as claimed): a GET /api/aliases request with force_refresh=true has
\* called providers.list by the time it is answered, whatever its query and
\* namespace parameters and whatever the cache held
C15_ForcedRequestAlwaysFetches ==
    \A c \in Callers :
        ( /\ request[c].handler = "get_aliases"
          /\ request[c].force_refresh
          /\ request[c].pc = "done" )
        => call[c].listCalls >= 1

\* C17: the cache and its timestamp change only in the step in which a call
\* whose fetch has succeeded stores the fetched list; a call that was served
\* from the cache, and a call whose fetch failed, whether it returned the
\* stale list or raised, ends with the cache and the timestamp it found, so
\* that a cache that was expired then is as old as before
C17_OnlySuccessfulFetchWritesCache ==
    /\ [][ (cache' # cache \/ cache_timestamp' # cache_timestamp)
           => \E c \in Callers :
                 /\ call[c].pc = "resume" /\ ~call[c].run.raised
                 /\ call'[c].pc = "done" /\ call'[c].outcome = "returned"
                 /\ call'[c].wrote
                 /\ cache' = [has |-> TRUE, aliases |-> call[c].run.all_aliases]
                 /\ cache_timestamp' = call'[c].fetchedAt ]_vars
    /\ [](\A c \in Callers :
            LET k == call[c] IN
            (k.pc = "done" /\ (k.invocations = <<>> \/ FetchFailed(k)))
            => /\ ~k.wrote
               /\ cache_timestamp = k.ts0
               /\ cache.has = k.had0
               /\ (k.outcome = "returned" => k.value = cache.aliases)
               /\ (k.had0 /\ ~k.fresh0) => now - cache_timestamp >= cache_duration)

\* C17 witness: a call on an expired cache has returned the stale list after
\* its fetch failed, and the timestamp is the one it found
C17_Witness ==
    \E c \in Callers :
        /\ call[c].pc = "done" /\ FetchFailed(call[c])
        /\ call[c].had0 /\ ~call[c].fresh0 /\ ~call[c].force_refresh
        /\ call[c].outcome = "returned" /\ call[c].value # <<>>
        /\ cache_timestamp = call[c].ts0
        /\ now - cache_timestamp >= cache_duration

\* the fan-out of a run is over: every future was consumed by the loop
FanOutOver(run) ==
    ~run.raised /\ \A i \in DOMAIN run.units : run.units[i].st = "merged"

\* the list is the whole result of the fetch of one call that has ended
OneFetch(aliases) ==
    \E d \in Callers :
        /\ call[d].pc = "done" /\ call[d].wrote
        /\ FanOutOver(call[d].run)
        /\ aliases = call[d].run.all_aliases

\* C18: with two overlapping calls, at every moment the cache is empty or
\* holds the whole result of the fetch of one call that has ended, stamped by
\* that call; every list a call returns is such a result; and the cache
\* changes only by being replaced with the result of a run whose fan-out is over
C18_CacheIsOneCompleteFetch ==
    /\ [](/\ ~cache.has => cache = NoCache /\ cache_timestamp = NoTimestamp
          /\ cache.has =>
                \E d \in Callers :
                    /\ call[d].pc = "done" /\ call[d].wrote
                    /\ FanOutOver(call[d].run)
                    /\ cache.aliases = call[d].run.all_aliases
                    /\ cache_timestamp = call[d].fetchedAt
          /\ \A c \in Callers :
                (call[c].pc = "done" /\ call[c].outcome = "returned")
                => OneFetch(call[c].value))
    /\ [][ cache' # cache
           => \E c \in Callers :
                 /\ call[c].pc = "resume" /\ FanOutOver(call[c].run)
                 /\ cache'.has /\ cache'.aliases = call[c].run.all_aliases
                 /\ call'[c].value = cache'.aliases ]_vars

\* C18 witness: the cache holds the result of the call that has ended while
\* the other call's fan-out has accumulated a part of another result
C18_Witness ==
    \E c, d \in Callers :
        /\ call[d].pc = "done" /\ call[d].wrote
        /\ cache.aliases = call[d].run.all_aliases /\ cache.aliases # <<>>
        /\ call[c].pc = "fanout"
        /\ call[c].run.all_aliases # <<>>
        /\ call[c].run.all_aliases # cache.aliases
        /\ \E i \in DOMAIN call[c].run.units :
              call[c].run.units[i].st = "queued" /\ call[c].run.units[i].namespace # ""

\* C20: a forced call that starts while another forced call is suspended in
\* its fetch begins a fetch of its own; every forced call that has come past
\* the listing has called providers.list itself, and every forced call whose
\* fetch succeeded has replaced the cache with its own result
C20_NoSingleFlight ==
    /\ [][ \A c \in Callers :
             (/\ call[c].pc = "idle" /\ call'[c].pc # "idle"
              /\ call'[c].force_refresh
              /\ \E d \in Callers \ {c} :
                    call[d].force_refresh /\ call[d].pc \notin {"idle", "done"})
             => call'[c].pc = "list" ]_vars
    /\ [](\A c \in Callers :
            LET k == call[c] IN
            (k.force_refresh /\ k.pc \in {"fanout", "resume", "done"})
            => /\ k.listCalls >= 1
               /\ (k.pc = "done" => k.invocations # <<>>)
               /\ (k.pc = "done" /\ k.invocations[Len(k.invocations)].kind = None)
                  => k.wrote /\ k.value = k.run.all_aliases
                             /\ k.outcome = "returned")

\* C20 witness: two forced calls that both began on the empty cache, hence
\* overlapped, have each listed the namespaces, fanned out and written the
\* cache, which holds the result of the later one
C20_Witness ==
    /\ \A c \in Callers :
          /\ call[c].pc = "done" /\ call[c].force_refresh
          /\ call[c].ts0 = NoTimestamp /\ ~call[c].had0
          /\ call[c].listCalls = 1 /\ call[c].detailCalls >= 1
          /\ call[c].wrote
    /\ call["c1"].value # call["c2"].value
    /\ cache.aliases = call["c2"].value

\* 2**n, by repeated doubling
RECURSIVE Doubled(_, _)
Doubled(x, n) == IF n = 0 THEN x ELSE Doubled(x + x, n - 1)

\* the j-th run of func of the call k raised a ServiceRequestError or an
\* HttpResponseError that is no authentication error, and execute has handled it
TransientHandled(k, j) ==
    /\ j \in 1..Len(k.invocations)
    /\ k.invocations[j].kind \in {"ServiceRequestError", "HttpResponseError"}
    /\ (j < Len(k.invocations) \/ k.pc # "resume")

\* C19 as stated: every attempt that ends in a transient error, the last one
\* included, is followed by a sleep of base_delay * 2^(attempt index)
C19_SleepAfterEveryTransientAttempt ==
    \A c \in Callers : \A j \in 1..max_retries :
        TransientHandled(call[c], j)
        => /\ Len(call[c].slept) >= j
           /\ call[c].slept[j] = Doubled(base_delay, j - 1)

\* C19 amended: an attempt that ends in a transient error and is not the
\* last one (index below max_retries - 1) is followed by a sleep of
\* base_delay * 2^(attempt index); the last attempt is followed by none, so
\* a call sleeps at most max_retries - 1 times
C19_SleepBetweenAttempts ==
    \A c \in Callers :
        /\ \A j \in 1..(max_retries - 1) :
              TransientHandled(call[c], j)
              => /\ Len(call[c].slept) >= j
                 /\ call[c].slept[j] = Doubled(base_delay, j - 1)
        /\ Len(call[c].slept) <= max_retries - 1
        /\ Len(call[c].slept) <= Len(call[c].invocations)
        /\ \A j \in 1..Len(call[c].slept) : TransientHandled(call[c], j)

\* C19 witness: every attempt of a call ended in a transient error; it slept
\* base_delay, then twice that, and not after the last attempt
C19_Witness ==
    \E c \in Callers :
        /\ call[c].pc = "done"
        /\ Len(call[c].invocations) = max_retries
        /\ \A j \in 1..max_retries : TransientHandled(call[c], j)
        /\ call[c].slept = <<base_delay, base_delay + base_delay>>

\* C21 (as claimed): get_statistics reports the length of the cached list,
\* the number of its distinct namespaces and the number of its distinct
\* (namespace, resource_type) pairs, whatever the strings are
C21_StatisticsCountPairs ==
    \A c \in Callers :
        LET l == cache.aliases
            reply == request[c].reply
        IN (request[c].op = "get_statistics" /\ request[c].pc = "done")
           => /\ request[c].outcome = "returned"
              /\ reply.total_aliases = Len(l)
              /\ reply.total_namespaces =
                    Cardinality({l[i].namespace : i \in 1..Len(l)})
              /\ reply.total_resource_types =
                    Cardinality({<<l[i].namespace, l[i].resource_type>> :
                                    i \in 1..Len(l)})

\* the units of a run whose future the loop has consumed
MergedUnits(run) == {i \in DOMAIN run.units : run.units[i].st = "merged"}

\* the entries of a list of aliases that are of the namespace ns, in order
OfNamespace(aliases, ns) == SelectSeq(aliases, LAMBDA a : a.namespace = ns)

\* the number of entries of a list of namespaces that are ns
Occurrences(names, ns) == Cardinality({j \in 1..Len(names) : names[j] = ns})

\* C22: in a fetch, all_aliases and failed_providers change only in a step of
\* the as_completed loop, which consumes one finished future and appends that
\* future's aliases, or its namespace, at the end: no step of a worker touches
\* them and no step appends for two futures. At every moment all_aliases holds
\* the aliases of every consumed future once and in that future's order, and
\* nothing else, and failed_providers names every consumed future that raised
\* once, whatever the order in which the workers ended
C22_MergeOneFutureAtATime ==
    /\ [][ \A c \in Callers :
             LET run == call[c].run
                 after == call'[c].run
             IN (/\ call[c].pc = "fanout" /\ call'[c].id = call[c].id
                 /\ \/ after.all_aliases # run.all_aliases
                    \/ after.failed_providers # run.failed_providers)
                => \E i \in DOMAIN run.units :
                      /\ run.units[i].st = "done"
                      /\ after.units[i].st = "merged"
                      /\ \A j \in DOMAIN run.units \ {i} :
                            after.units[j] = run.units[j]
                      /\ after.all_aliases =
                            run.all_aliases \o run.units[i].result.aliases
                      /\ after.failed_providers =
                            IF run.units[i].result.raised
                            THEN Append(run.failed_providers, run.units[i].namespace)
                            ELSE run.failed_providers ]_vars
    /\ [](\A c \in Callers :
            LET run == call[c].run
                merged == MergedUnits(run)
            IN (call[c].pc \in {"fanout", "resume", "done"} /\ ~run.raised)
               => /\ \A i \in DOMAIN run.units :
                        /\ run.units[i].namespace # ""
                           => OfNamespace(run.all_aliases, run.units[i].namespace)
                              = IF i \in merged THEN run.units[i].result.aliases
                                ELSE <<>>
                        /\ Occurrences(run.failed_providers, run.units[i].namespace)
                           = IF i \in merged /\ run.units[i].result.raised
                             THEN 1 ELSE 0
                  /\ \A j \in 1..Len(run.all_aliases) :
                        \E i \in merged :
                            run.all_aliases[j].namespace = run.units[i].namespace
                  /\ \A j \in 1..Len(run.failed_providers) :
                        \E i \in merged :
                            run.failed_providers[j] = run.units[i].namespace)

\* C22 witness: the workers of two namespaces ended with aliases, the later
\* namespace of the listing was merged first, and all_aliases holds the
\* aliases of both, the later namespace's first
C22_Witness ==
    \E c \in Callers :
        LET run == call[c].run IN
        /\ call[c].pc = "resume" /\ ~run.raised
        /\ Len(run.units) = 3 /\ MergedUnits(run) = DOMAIN run.units
        /\ Len(run.units[1].result.aliases) = 2
        /\ Len(run.units[3].result.aliases) = 1
        /\ run.all_aliases = run.units[3].result.aliases \o run.units[1].result.aliases

\* C23: a call whose last run listed the namespaces has succeeded: it returned
\* the run's list and replaced the cache with it, stamped with the present
\* time, also when the list is empty because every providers.get failed and
\* the cache held a non-empty list before; and a call without force_refresh
\* on a cache within its TTL is served the cached list without any fetch,
\* also when that list is empty
C23_EmptyResultReplacesCache ==
    \A c \in Callers :
        LET k == call[c] IN
        /\ (/\ k.pc = "done" /\ k.invocations # <<>>
            /\ k.invocations[Len(k.invocations)].listed)
           => /\ k.invocations[Len(k.invocations)].kind = None
              /\ k.outcome = "returned" /\ k.wrote
              /\ k.value = k.run.all_aliases
              /\ cache.has /\ cache.aliases = k.run.all_aliases
              /\ cache_timestamp = k.fetchedAt /\ cache_timestamp = now
        /\ (k.pc = "done" /\ ~k.force_refresh /\ k.had0 /\ k.fresh0)
           => /\ k.invocations = <<>> /\ k.listCalls = 0 /\ k.detailCalls = 0
              /\ k.outcome = "returned" /\ k.value = cache.aliases
              /\ ~k.wrote /\ cache_timestamp = k.ts0

\* C23 witness: the first call on the filled cache has listed the namespaces,
\* every providers.get has failed, and the cache holds the empty list,
\* stamped with the present time, in place of the list it held
C23_Witness ==
    \E c \in Callers :
        LET k == call[c] IN
        /\ k.id = 1 /\ k.pc = "done" /\ k.had0 /\ k.wrote
        /\ k.run.units # <<>> /\ k.detailCalls >= 1
        /\ Len(k.run.failed_providers) = k.detailCalls
        /\ k.run.all_aliases = <<>>
        /\ cache = [has |-> TRUE, aliases |-> <<>>]
        /\ cache_timestamp = now

====
